---- MODULE Spec2Model ----
(***************************************************************************)
(* NDVI calculator (src/ndvi_calculator.py): the raster arithmetic of      *)
(* process_bands / calculate_ndvi on numpy masked arrays, and the          *)
(* Streamlit session of main(): one script run per action, with at most    *)
(* one button pressed in a run.                                            *)
(*                                                                         *)
(* Numbers.  A number is NaN or a record [n, ne, d, de] that stands for    *)
(* (n + ne*eps) / (d + de*eps), where eps is the 1e-10 of calculate_ndvi   *)
(* expressed in the unit of the band (1e-6 for Sentinel-2 reflectance in   *)
(* 1/10000, 4e-5 for Landsat reflectance in 1/400000).  Arithmetic is      *)
(* exact; comparisons use only 0 < 255 * eps < 1.                          *)
(***************************************************************************)
EXTENDS Integers, Sequences, FiniteSets, TLC

VARIABLES red_band, nir_band, satellite_choice, ndvi, message, output,
          called, succeeded

vars == <<red_band, nir_band, satellite_choice, ndvi, message, output,
          called, succeeded>>

-----------------------------------------------------------------------------
(* Bounds of the model *)

\* largest number of rows / columns of an uploaded raster
MaxRows == 2
MaxCols == 3
\* the export cap (100000 in the source, line 120), scaled to the rasters above
SampleCap == 2
\* the side of the resized map (512 in the source, line 74), scaled likewise
ResizeSide == 2

-----------------------------------------------------------------------------
(* Numbers *)

NaN == [nan |-> TRUE]
None == [none |-> TRUE]
Corrupt == [corrupt |-> TRUE]

Rat(n, d) == [n |-> n, ne |-> 0, d |-> d, de |-> 0]

isnan(x) == x = NaN

\* the sign of the denominator d + de*eps (0 when it is exactly zero)
DenSign(x) ==
    IF x.d > 0 \/ (x.d = 0 /\ x.de = 1) THEN 1
    ELSE IF x.d < 0 THEN -1 ELSE 0

\* x >= p/q for a number x with ne = 0 and a nonzero denominator, q > 0,
\* |p| <= 255; every comparison with NaN is false
GE(x, p, q) ==
    /\ ~isnan(x)
    /\ LET t == q * x.n - p * x.d
       IN  IF DenSign(x) = 1
           THEN IF p * x.de > 0 THEN t >= 1 ELSE t >= 0
           ELSE IF p * x.de < 0 THEN t <= -1 ELSE t <= 0

\* x <= p/q, same conditions
LE(x, p, q) ==
    /\ ~isnan(x)
    /\ LET t == q * x.n - p * x.d
       IN  IF DenSign(x) = 1
           THEN IF p * x.de < 0 THEN t <= -1 ELSE t <= 0
           ELSE IF p * x.de > 0 THEN t >= 1 ELSE t >= 0

LT(x, p, q) == ~isnan(x) /\ ~GE(x, p, q)
GT(x, p, q) == ~isnan(x) /\ ~LE(x, p, q)

\* a - b and a + b for two numbers in the same unit (same d, de = 0)
Subtract(a, b) ==
    IF isnan(a) \/ isnan(b) THEN NaN
    ELSE [n |-> a.n - b.n, ne |-> a.ne - b.ne, d |-> a.d, de |-> 0]

Add(a, b) ==
    IF isnan(a) \/ isnan(b) THEN NaN
    ELSE [n |-> a.n + b.n, ne |-> a.ne + b.ne, d |-> a.d, de |-> 0]

\* the denominator without the 1e-10
AddEps_Missing(x) == x

\* x + 1e-10: eps is 1e-10 in the unit 1/d of x
AddEps(x) == IF isnan(x) THEN NaN ELSE [x EXCEPT !.ne = x.ne + 1]

\* a / b for a, b in the same unit; a has no eps part. NaN when the float
\* result is not finite (a NaN operand, or a denominator that is exactly 0)
TrueDivide(a, b) ==
    IF isnan(a) \/ isnan(b) \/ (b.n = 0 /\ b.ne = 0) THEN NaN
    ELSE [n |-> a.n, ne |-> 0, d |-> b.n, de |-> b.ne]

-----------------------------------------------------------------------------
(* Arrays.  An ndarray is [shape |-> <<rows, cols>>, a |-> row-major sequence *)
(* of numbers]; a masked array is [shape, px |-> row-major sequence of        *)
(* [mask, data]], data being the number numpy keeps under the mask.           *)

Size(shape) == shape[1] * shape[2]

\* numpy broadcasting of two 2-D shapes
Broadcastable(s, t) ==
    /\ s[1] = t[1] \/ s[1] = 1 \/ t[1] = 1
    /\ s[2] = t[2] \/ s[2] = 1 \/ t[2] = 1

Max(x, y) == IF x >= y THEN x ELSE y
Min(x, y) == IF x <= y THEN x ELSE y

BroadcastShape(s, t) == <<Max(s[1], t[1]), Max(s[2], t[2])>>

\* the flat index, in an array of shape s, of the element that position p
\* (flat, 1-based) of the broadcast shape out reads
SourceIndex(s, out, p) ==
    LET i == (p - 1) \div out[2]
        j == (p - 1) % out[2]
        si == IF s[1] = 1 THEN 0 ELSE i
        sj == IF s[2] = 1 THEN 0 ELSE j
    IN  si * s[2] + sj + 1

\* nir_band - red_band, a numpy.ma binary operation
\* (_MaskedBinaryOperation): the masks are or-ed and the first operand's
\* data is put back under the mask
MaskedSubtract(a, b) ==
    LET out == BroadcastShape(a.shape, b.shape)
    IN  [shape |-> out,
         px |-> [p \in 1..Size(out) |->
                   LET x == a.px[SourceIndex(a.shape, out, p)]
                       y == b.px[SourceIndex(b.shape, out, p)]
                       m == x.mask \/ y.mask
                   IN  [mask |-> m,
                        data |-> IF m THEN x.data
                                 ELSE Subtract(x.data, y.data)]]]

\* nir_band + red_band, likewise
MaskedAdd(a, b) ==
    LET out == BroadcastShape(a.shape, b.shape)
    IN  [shape |-> out,
         px |-> [p \in 1..Size(out) |->
                   LET x == a.px[SourceIndex(a.shape, out, p)]
                       y == b.px[SourceIndex(b.shape, out, p)]
                       m == x.mask \/ y.mask
                   IN  [mask |-> m,
                        data |-> IF m THEN x.data ELSE Add(x.data, y.data)]]]

\* (...) + 1e-10: a numpy.ma operation with a scalar keeps the mask and the
\* data under it
MaskedAddEps(a) ==
    [shape |-> a.shape,
     px |-> [p \in 1..Size(a.shape) |->
               LET x == a.px[p]
               IN  [mask |-> x.mask,
                    data |-> IF x.mask THEN x.data ELSE AddEps(x.data)]]]

\* numpy.ma division (_DomainedBinaryOperation): as MaskedSubtract, and a
\* result that is not finite is masked too
MaskedDivide(a, b) ==
    LET out == BroadcastShape(a.shape, b.shape)
    IN  [shape |-> out,
         px |-> [p \in 1..Size(out) |->
                   LET x == a.px[SourceIndex(a.shape, out, p)]
                       y == b.px[SourceIndex(b.shape, out, p)]
                       m == x.mask \/ y.mask
                            \/ isnan(TrueDivide(x.data, y.data))
                   IN  [mask |-> m,
                        data |-> IF m THEN x.data
                                 ELSE TrueDivide(x.data, y.data)]]]

\* masked_equal that masks nothing (the sentinel is never matched)
masked_equal_Nothing(band, value) ==
    [shape |-> band.shape,
     px |-> [p \in 1..Size(band.shape) |->
               [mask |-> FALSE, data |-> band.a[p]]]]

\* np.ma.masked_equal(band, value): IEEE equality, so NaN equals nothing,
\* and nodata None equals nothing
masked_equal(band, value) ==
    [shape |-> band.shape,
     px |-> [p \in 1..Size(band.shape) |->
               [mask |-> value # None /\ ~isnan(value) /\ band.a[p] = value,
                data |-> band.a[p]]]]

-----------------------------------------------------------------------------
(* Radiometric scaling *)

SentinelDivisor == 10000
\* 0.0000275 = 11/400000 and 0.2 = 80000/400000
LandsatGain == 11
LandsatOffset == 80000
LandsatUnit == 400000

\* x / 10000.0 of a raw sample
DivideBy10000(x) ==
    IF isnan(x) THEN NaN ELSE [x EXCEPT !.d = x.d * SentinelDivisor]

\* x * 0.0000275 - 0.2 of a raw sample
GainOffset(x) ==
    IF isnan(x) THEN NaN
    ELSE Rat(LandsatGain * x.n - LandsatOffset * x.d, LandsatUnit * x.d)

\* band / 10000.0 is a numpy.ma division: a NaN sample is masked here
ScaleSentinel(band) ==
    [shape |-> band.shape,
     px |-> [p \in 1..Size(band.shape) |->
               LET x == band.px[p]
                   m == x.mask \/ isnan(DivideBy10000(x.data))
               IN  [mask |-> m,
                    data |-> IF m THEN x.data ELSE DivideBy10000(x.data)]]]

\* band * 0.0000275 - 0.2: two plain masked operations, the mask is unchanged
ScaleLandsat(band) ==
    [shape |-> band.shape,
     px |-> [p \in 1..Size(band.shape) |->
               LET x == band.px[p]
               IN  [mask |-> x.mask,
                    data |-> IF x.mask THEN x.data ELSE GainOffset(x.data)]]]

Scale(band, choice) ==
    IF choice = "Sentinel-2" THEN ScaleSentinel(band)
    ELSE IF choice = "Landsat 8/9" THEN ScaleLandsat(band)
    ELSE band

-----------------------------------------------------------------------------
(* calculate_ndvi and process_bands *)

calculate_ndvi(red, nir) ==
    MaskedDivide(MaskedSubtract(nir, red), MaskedAddEps(MaskedAdd(nir, red)))

\* np.clip(x, -1, 1) of one number: NaN stays NaN
ClipValue(x) ==
    IF isnan(x) THEN NaN
    ELSE IF GT(x, 1, 1) THEN Rat(1, 1)
    ELSE IF LT(x, -1, 1) THEN Rat(-1, 1)
    ELSE x

\* clip left out: the quotient is returned as it is
clip_Missing(arr) == arr

\* np.clip on a masked array clips the data and keeps the mask
clip(arr) ==
    [shape |-> arr.shape,
     px |-> [p \in 1..Size(arr.shape) |->
               LET x == arr.px[p]
               IN  [mask |-> x.mask, data |-> ClipValue(x.data)]]]

\* src.read(1)
read(src) == [shape |-> src.shape, a |-> src.data]

\* process_bands: [ok |-> TRUE, ndvi] on return, [ok |-> FALSE, error] when
\* an exception leaves the function (an unreadable file, or operands that
\* numpy cannot broadcast)
process_bands(red_path, nir_path, choice) ==
    IF red_path = Corrupt \/ nir_path = Corrupt
    THEN [ok |-> FALSE, error |-> "RasterioIOError"]
    ELSE LET red == Scale(masked_equal(read(red_path), red_path.nodata), choice)
             nir == Scale(masked_equal(read(nir_path), nir_path.nodata), choice)
         IN  IF ~Broadcastable(red.shape, nir.shape)
             THEN [ok |-> FALSE, error |-> "ValueError"]
             ELSE [ok |-> TRUE, ndvi |-> clip(calculate_ndvi(red, nir))]

-----------------------------------------------------------------------------
(* Uploaded files.  A readable raster is [shape, nodata, data]: data is the *)
(* band as src.read(1) returns it, nodata is src.nodata (None when unset).  *)

\* raw digital numbers of the pixels; NaN occurs in floating-point rasters
Samples == <<Rat(0, 1), Rat(5000, 1), Rat(10000, 1), NaN>>

NoDataValues == {None, Rat(0, 1), Rat(10000, 1)}

SatelliteChoices == {"Landsat 8/9", "Sentinel-2"}

Shapes == (1..MaxRows) \X (1..MaxCols)

\* the raster of a shape whose pixels run through Samples from offset o
MkRaster(shape, o, nodata) ==
    [shape |-> shape, nodata |-> nodata,
     data |-> [p \in 1..Size(shape) |-> Samples[((o + p - 1) % Len(Samples)) + 1]]]

Rasters ==
    {MkRaster(s, o, nd) : s \in Shapes, o \in 0..(Len(Samples) - 1),
                          nd \in NoDataValues}

\* the files a session uploads: nothing, an unreadable file, or a raster
\* (two shapes that numpy cannot broadcast against each other)
SessionRasters ==
    { MkRaster(<<2, 2>>, 0, Rat(0, 1)), MkRaster(<<2, 2>>, 1, None),
      MkRaster(<<1, 3>>, 0, Rat(0, 1)) }
Uploads == {None, Corrupt} \cup SessionRasters

-----------------------------------------------------------------------------
(* main(): the classification rules, bounds in tenths *)

classifications ==
    << [lower |-> -10, upper |-> -1, label |-> "Water"],
       [lower |-> -1, upper |-> 1, label |-> "Barren (Rock/Sand/Snow)"],
       [lower |-> 1, upper |-> 4, label |-> "Shrub & Grassland"],
       [lower |-> 4, upper |-> 10, label |-> "Temperate/Tropical Rainforest"] >>

Labels == {classifications[i].label : i \in DOMAIN classifications}

\* np.zeros_like(..., dtype=object): the entry of a cell no rule writes
Unlabelled == "0"

\* the rules whose mask (v >= lower) & (v < upper) is set for v
Matching(v) ==
    {i \in DOMAIN classifications :
        GE(v, classifications[i].lower, 10) /\ LT(v, classifications[i].upper, 10)}

\* the loop assigns rule by rule: the last matching rule's label stays
LabelOf(v) ==
    IF Matching(v) = {} THEN Unlabelled
    ELSE classifications[CHOOSE i \in Matching(v) :
                            \A j \in Matching(v) : j <= i].label

-----------------------------------------------------------------------------
(* main(): Calculate NDVI *)

NoOutput == [kind |-> "none"]

\* an except branch that resets the stored result
CalculateOutcome_ResetOnError(red, nir, choice, old) ==
    IF red # None /\ nir # None
    THEN LET r == process_bands(red, nir, choice)
         IN  IF r.ok
             THEN [ndvi |-> r.ndvi, message |-> "success", called |-> TRUE]
             ELSE [ndvi |-> None, message |-> "error", called |-> TRUE]
    ELSE [ndvi |-> old, message |-> "warning", called |-> FALSE]

\* "red_band or nir_band": process_bands is called with a missing file and
\* raises
CalculateOutcome_Or(red, nir, choice, old) ==
    IF red # None \/ nir # None
    THEN IF red = None \/ nir = None
         THEN [ndvi |-> old, message |-> "error", called |-> TRUE]
         ELSE LET r == process_bands(red, nir, choice)
              IN  IF r.ok
                  THEN [ndvi |-> r.ndvi, message |-> "success", called |-> TRUE]
                  ELSE [ndvi |-> old, message |-> "error", called |-> TRUE]
    ELSE [ndvi |-> old, message |-> "warning", called |-> FALSE]

\* an else branch that resets the stored result
CalculateOutcome_ResetOnWarning(red, nir, choice, old) ==
    IF red # None /\ nir # None
    THEN LET r == process_bands(red, nir, choice)
         IN  IF r.ok
             THEN [ndvi |-> r.ndvi, message |-> "success", called |-> TRUE]
             ELSE [ndvi |-> old, message |-> "error", called |-> TRUE]
    ELSE [ndvi |-> None, message |-> "warning", called |-> FALSE]

\* the effect of the Calculate button on the session, from the widgets'
\* values and the stored result
CalculateOutcome(red, nir, choice, old) ==
    IF red # None /\ nir # None
    THEN LET r == process_bands(red, nir, choice)
         IN  IF r.ok
             THEN [ndvi |-> r.ndvi, message |-> "success", called |-> TRUE]
             ELSE [ndvi |-> old, message |-> "error", called |-> TRUE]
    ELSE [ndvi |-> old, message |-> "warning", called |-> FALSE]

\* one script run with the Calculate button pressed
Calculate(red, nir, choice) ==
    LET r == CalculateOutcome(red, nir, choice, ndvi)
    IN  /\ red_band' = red
        /\ nir_band' = nir
        /\ satellite_choice' = choice
        /\ ndvi' = r.ndvi
        /\ message' = r.message
        /\ called' = r.called
        /\ succeeded' = (succeeded \/ r.message = "success")
        /\ output' = NoOutput

-----------------------------------------------------------------------------
(* main(): Display NDVI Map *)

\* what a float-to-uint8 cast may give for -1.0 and for NaN (undefined in C:
\* numpy wraps or saturates by platform)
UndefinedCasts == {0, 255}

\* ((v + 1) * 127.5).astype(np.uint8) of a valid pixel, v in [-1, 1]:
\* the largest k with (v + 1) * 127.5 >= k, i.e. v >= (2k - 255) / 255
RECURSIVE Truncate(_, _, _)
Truncate(v, lo, hi) ==
    IF lo = hi THEN lo
    ELSE LET mid == (lo + hi + 1) \div 2
         IN  IF GE(v, 2 * mid - 255, 255) THEN Truncate(v, mid, hi)
             ELSE Truncate(v, lo, mid - 1)

ScaledByte(v) == Truncate(v, 0, 255)

\* the same expression at a masked pixel: + 1 and * 127.5 put the data back
\* under the mask, and the cast truncates it
MaskedByte(x, ub) ==
    IF isnan(x) THEN ub
    ELSE IF GE(x, 1, 1) THEN 1
    ELSE IF GT(x, -1, 1) THEN 0
    ELSE ub

\* ndvi_scaled: Image.fromarray reads the data buffer, the mask is dropped
ndvi_scaled(arr, ub) ==
    [p \in 1..Size(arr.shape) |->
        IF arr.px[p].mask THEN MaskedByte(arr.px[p].data, ub)
        ELSE ScaledByte(arr.px[p].data)]

\* Image.resize(..., NEAREST): the source pixel of output position o
\* (0-based) along an axis of length len
NearestSource(o, len) == ((2 * o + 1) * len) \div (2 * ResizeSide)

\* the flat source index of the flat cell c of the resized image
CellSource(shape, c) ==
    LET i == (c - 1) \div ResizeSide
        j == (c - 1) % ResizeSide
    IN  NearestSource(i, shape[1]) * shape[2] + NearestSource(j, shape[2]) + 1

Cells == 1..(ResizeSide * ResizeSide)

\* ndvi_resized = byte / 127.5 - 1
Unscale(k) == Rat(2 * k - 255, 255)

\* one script run with the Display NDVI Map button pressed
DisplayMap ==
    /\ ndvi # None
    /\ \E ub \in UndefinedCasts :
         LET bytes == ndvi_scaled(ndvi, ub)
             z == [c \in Cells |-> Unscale(bytes[CellSource(ndvi.shape, c)])]
         IN  output' = [kind |-> "map", z |-> z,
                        customdata |-> [c \in Cells |->
                                          LET v == z[c] IN LabelOf(v)]]
    /\ message' = "none"
    /\ called' = FALSE
    /\ UNCHANGED <<red_band, nir_band, satellite_choice, ndvi, succeeded>>

-----------------------------------------------------------------------------
(* main(): Produce NDVI Histogram and Download NDVI as CSV *)

\* arr.flatten()[~np.isnan(...)]: indexing with a masked boolean array uses
\* its data, so a masked pixel stays unless the data under its mask is NaN
NotNaN(arr) == {p \in 1..Size(arr.shape) : ~isnan(arr.px[p].data)}

NA == "NaN"

\* pd.cut(v, bins, labels, include_lowest=True, right=False): the bin i with
\* bins[i] <= v < bins[i+1]; NaN outside every bin
Cut(v) ==
    LET ids == {i \in DOMAIN classifications :
                   GE(v, classifications[i].lower, 10)
                   /\ LT(v, classifications[i].upper, 10)}
    IN  IF ids = {} THEN NA ELSE classifications[CHOOSE i \in ids : TRUE].label

\* one script run with the Produce NDVI Histogram button pressed. pandas
\* either reads the data under a mask or turns a masked entry into NaN,
\* by version
Histogram ==
    /\ ndvi # None
    /\ \E maskedIsNA \in BOOLEAN :
         LET cats == [p \in NotNaN(ndvi) |->
                        IF ndvi.px[p].mask /\ maskedIsNA THEN NA
                        ELSE Cut(ndvi.px[p].data)]
         IN  output' = [kind |-> "hist", categories |-> cats,
                        counts |-> [l \in Labels |->
                            Cardinality({p \in NotNaN(ndvi) : cats[p] = l})]]
    /\ message' = "none"
    /\ called' = FALSE
    /\ UNCHANGED <<red_band, nir_band, satellite_choice, ndvi, succeeded>>

\* one script run with the Download NDVI as CSV button pressed: rows maps
\* each sampled pixel to its row (NaN, an empty field, for a masked entry)
Download ==
    /\ ndvi # None
    /\ \E sampled_indices \in SUBSET NotNaN(ndvi) :
         /\ Cardinality(sampled_indices)
                = Min(SampleCap, Cardinality(NotNaN(ndvi)))
         /\ output' = [kind |-> "csv",
                       rows |-> [p \in sampled_indices |->
                                   IF ndvi.px[p].mask THEN NaN
                                   ELSE ndvi.px[p].data]]
    /\ message' = "none"
    /\ called' = FALSE
    /\ UNCHANGED <<red_band, nir_band, satellite_choice, ndvi, succeeded>>

-----------------------------------------------------------------------------
(* The session *)

Init ==
    /\ red_band = None
    /\ nir_band = None
    /\ satellite_choice = "Landsat 8/9"
    /\ ndvi = None
    /\ message = "none"
    /\ output = NoOutput
    /\ called = FALSE
    /\ succeeded = FALSE

CalculateNDVI ==
    \E red \in Uploads, nir \in Uploads, choice \in SatelliteChoices :
        Calculate(red, nir, choice)

Next == CalculateNDVI \/ DisplayMap \/ Histogram \/ Download

Spec == Init /\ [][Next]_vars

(* process_bands alone: one Calculate run of a fresh session on any pair *)
(* of rasters of the catalogue                                           *)

EngineInit ==
    /\ red_band \in Rasters
    /\ nir_band \in Rasters
    /\ satellite_choice \in SatelliteChoices
    /\ ndvi = None
    /\ message = "none"
    /\ output = NoOutput
    /\ called = FALSE
    /\ succeeded = FALSE

EngineCalculate ==
    /\ message = "none"
    /\ Calculate(red_band, nir_band, satellite_choice)

EngineSpec == EngineInit /\ [][EngineCalculate]_vars

-----------------------------------------------------------------------------
(* Properties *)

\* the pixel at flat index p of a raster file is its nodata sentinel
IsNoData(src, p) == src.nodata # None /\ src.data[p] = src.nodata

\* the source pixel, in a raster file, of position p of the stored result
SourceOf(src, p) == SourceIndex(src.shape, ndvi.shape, p)

InRange(x) == GE(x, -1, 1) /\ LE(x, 1, 1)

\* C1: for equal-shape red and nir grids and either sensor, every output
\* pixel of process_bands whose red and nir source pixels are both
\* non-nodata is masked (invalid) or a number in [-1, 1].
C1_ValidPixelsInRange ==
    (message = "success" /\ red_band.shape = nir_band.shape) =>
        \A p \in 1..Size(ndvi.shape) :
            (~IsNoData(red_band, p) /\ ~IsNoData(nir_band, p)) =>
                (ndvi.px[p].mask \/ InRange(ndvi.px[p].data))

\* a valid pixel of non-nodata sources whose quotient was clipped to 1
C1_Witness ==
    /\ message = "success"
    /\ red_band.shape = nir_band.shape
    /\ \E p \in 1..Size(ndvi.shape) :
          /\ ~IsNoData(red_band, p) /\ ~IsNoData(nir_band, p)
          /\ ~ndvi.px[p].mask
          /\ ndvi.px[p].data = Rat(1, 1)

\* C2: masking invariant: at every position, if the red pixel is the red
\* grid's sentinel or the nir pixel is the nir grid's sentinel (the two
\* sentinels may differ), the output pixel is masked.
C2_NoDataIsMasked ==
    message = "success" =>
        \A p \in 1..Size(ndvi.shape) :
            (IsNoData(red_band, SourceOf(red_band, p))
                \/ IsNoData(nir_band, SourceOf(nir_band, p)))
            => ndvi.px[p].mask

\* two different sentinels, each masking a pixel the other leaves alone
C2_Witness ==
    /\ message = "success"
    /\ red_band.nodata # None /\ nir_band.nodata # None
    /\ red_band.nodata # nir_band.nodata
    /\ \E p, q \in 1..Size(ndvi.shape) :
          /\ IsNoData(red_band, SourceOf(red_band, p))
          /\ ~IsNoData(nir_band, SourceOf(nir_band, p))
          /\ ndvi.px[p].mask
          /\ IsNoData(nir_band, SourceOf(nir_band, q))
          /\ ~IsNoData(red_band, SourceOf(red_band, q))
          /\ ndvi.px[q].mask

IsZero(x) == ~isnan(x) /\ x.n = 0 /\ x.ne = 0

\* C8: zero boundary: for either sensor, a pixel whose red and nir samples
\* are both 0, 0 being the sentinel of neither grid, is valid and its NDVI
\* is 0: no division by zero, no NaN, no masked pixel.
C8_ZeroOverZero ==
    message = "success" =>
        \A p \in 1..Size(ndvi.shape) :
            LET r == SourceOf(red_band, p)
                n == SourceOf(nir_band, p)
            IN  (/\ red_band.data[r] = Rat(0, 1) /\ nir_band.data[n] = Rat(0, 1)
                 /\ ~IsNoData(red_band, r) /\ ~IsNoData(nir_band, n))
                => (/\ ~ndvi.px[p].mask
                    /\ IsZero(ndvi.px[p].data)
                    /\ DenSign(ndvi.px[p].data) # 0)

\* a 0/0 pixel under Sentinel-2, where the denominator is the 1e-10 alone
C8_Witness ==
    /\ message = "success"
    /\ satellite_choice = "Sentinel-2"
    /\ \E p \in 1..Size(ndvi.shape) :
          /\ red_band.data[SourceOf(red_band, p)] = Rat(0, 1)
          /\ nir_band.data[SourceOf(nir_band, p)] = Rat(0, 1)
          /\ ~ndvi.px[p].mask
          /\ ndvi.px[p].data = [n |-> 0, ne |-> 0, d |-> 0, de |-> 1]

\* C6: process_bands fails for every pair of grids whose shapes differ: no
\* NDVI raster is returned when red.shape # nir.shape.
C6_ShapeMismatchFails ==
    (called /\ red_band.shape # nir_band.shape) => message = "error"

\* C5: when Calculate fails inside process_bands, an error is shown and the
\* stored result is what it was before the run.
C5_FailureKeepsResult ==
    [][ (/\ output' = NoOutput
         /\ red_band' # None /\ nir_band' # None
         /\ Calculate(red_band', nir_band', satellite_choice')
         /\ ~process_bands(red_band', nir_band', satellite_choice').ok)
        => (message' = "error" /\ ndvi' = ndvi) ]_vars

\* a failed Calculate with an earlier result still in place
C5_Witness == message = "error" /\ called /\ ndvi # None

\* C7: Calculate with the red band, the nir band or both missing: no call
\* of process_bands, a warning (not an error), the stored result unchanged.
C7_MissingInputWarns ==
    [][ (/\ output' = NoOutput
         /\ red_band' = None \/ nir_band' = None
         /\ Calculate(red_band', nir_band', satellite_choice'))
        => (~called' /\ message' = "warning" /\ ndvi' = ndvi) ]_vars

\* one band missing, the other supplied, an earlier result in place
C7_Witness ==
    /\ message = "warning"
    /\ red_band = None /\ nir_band # None
    /\ ndvi # None

\* C10: the stored result is absent at the start; Display, Histogram and
\* Download run only after a successful Calculate; a stored result is
\* never made absent again.
C10_SessionGating ==
    /\ ndvi = None
    /\ [](ndvi # None => succeeded)
    /\ [][ (output'.kind # "none" /\ (DisplayMap \/ Histogram \/ Download))
           => (succeeded /\ ndvi # None) ]_vars
    /\ [][ ndvi # None => ndvi' # None ]_vars

\* a download from a result that outlived a Calculate with missing input
C10_Witness ==
    /\ output.kind = "csv"
    /\ succeeded
    /\ red_band = None

Valid(arr) == {p \in 1..Size(arr.shape) : ~arr.px[p].mask}

\* C3: classification coverage: every NDVI value in [-1, 1], the end
\* points included, gets exactly one label, in the map's hover labels and
\* in the histogram.
C3_ExactlyOneLabel ==
    /\ output.kind = "map" =>
          \A c \in Cells :
              ~ndvi.px[CellSource(ndvi.shape, c)].mask =>
                  /\ Cardinality(Matching(output.z[c])) = 1
                  /\ output.customdata[c] \in Labels
    /\ output.kind = "hist" =>
          \A p \in DOMAIN output.categories :
              ~ndvi.px[p].mask => output.categories[p] \in Labels

\* C4: the download samples exactly min(cap, number of valid pixels) rows
\* without replacement, none of them from an invalid pixel.
C4_SampleOfValidPixels ==
    output.kind = "csv" =>
        /\ Cardinality(DOMAIN output.rows)
              = Min(SampleCap, Cardinality(Valid(ndvi)))
        /\ \A p \in DOMAIN output.rows : p \in Valid(ndvi)

\* C9: in the map's label grid a cell of a masked pixel carries no label,
\* and a cell of a valid pixel carries the label of the rule whose
\* interval contains the pixel's NDVI.
C9_MaskedCellsUnlabelled ==
    output.kind = "map" =>
        \A c \in Cells :
            LET x == ndvi.px[CellSource(ndvi.shape, c)]
            IN  IF x.mask THEN output.customdata[c] = Unlabelled
                ELSE Matching(x.data) # {}
                        => output.customdata[c] = LabelOf(x.data)

=============================================================================
